---- MODULE Spec2Model ----
(* Model of scripts/pycdt.py: the command-line dispatcher with the two      *)
(* handlers generate_input_files and parse_vasp_output.  The collaborators  *)
(* (MPRester, SpacegroupAnalyzer, ChargedDefectsStructures, the VASP file   *)
(* writers, PostProcess) are opaque: every call to one of them is recorded  *)
(* in `log` with its arguments and either returns a symbolic result or      *)
(* raises.                                                                  *)
EXTENDS Integers, Sequences, FiniteSets, TLC

----------------------------------------------------------------------------
(* Bounds and program constants *)

MaxOxi == 2

DefaultNmax == 128

Banner == "============\nERROR: Provide an mpid\n============"

----------------------------------------------------------------------------
(* Optional values: Python None or a value *)

None == <<>>

Some(v) == <<v>>

----------------------------------------------------------------------------
(* Conversions applied by argparse and by the handler.  Command-line words  *)
(* that are converted are sequences of one-character strings.               *)

UpperChars == <<"A","B","C","D","E","F","G","H","I","J","K","L","M",
                "N","O","P","Q","R","S","T","U","V","W","X","Y","Z">>

LowerChars == <<"a","b","c","d","e","f","g","h","i","j","k","l","m",
                "n","o","p","q","r","s","t","u","v","w","x","y","z">>

DigitChars == <<"0","1","2","3","4","5","6","7","8","9">>

LowerChar(c) ==
    IF \E k \in 1..26 : UpperChars[k] = c
    THEN LowerChars[CHOOSE k \in 1..26 : UpperChars[k] = c]
    ELSE c

\* str.lower, the type of --mpid
StrLower(s) == [k \in 1..Len(s) |-> LowerChar(s[k])]

IsDigit(c) == \E k \in 1..10 : DigitChars[k] = c

DigitVal(c) == (CHOOSE k \in 1..10 : DigitChars[k] = c) - 1

HasSign(s) == Len(s) > 0 /\ s[1] \in {"+", "-"}

Unsigned(s) == IF HasSign(s) THEN Tail(s) ELSE s

\* int(s) returns a value (otherwise it raises ValueError)
IntOk(s) ==
    /\ Len(Unsigned(s)) > 0
    /\ \A k \in 1..Len(Unsigned(s)) : IsDigit(Unsigned(s)[k])

RECURSIVE DigitsVal(_)
DigitsVal(s) ==
    IF Len(s) = 0 THEN 0
    ELSE 10 * DigitsVal(SubSeq(s, 1, Len(s) - 1)) + DigitVal(s[Len(s)])

\* the value of int(s) when IntOk(s)
IntVal(s) ==
    IF HasSign(s) /\ s[1] = "-" THEN 0 - DigitsVal(Unsigned(s))
    ELSE DigitsVal(Unsigned(s))

\* Python truthiness of an optional string: None and "" are false
Truthy(opt, empty) == opt # None /\ opt # Some(empty)

----------------------------------------------------------------------------
(* Command lines explored *)

Commands == {"generate_input_files", "parse_vasp_output"}

MpidWords == {None, Some(<<>>), Some(<<"M","P","-","1">>)}

KeyWords == {None, Some(""), Some("k1")}

NmaxWords == {None, Some(<<"6","4">>), Some(<<"x">>)}

DirWords == {None, Some("run1")}

Elements == {"As", "Ga"}

BoundWords == {<<"-","3">>, <<"5">>, <<"x">>}

OxiTriples == Elements \X BoundWords \X BoundWords

OxiLists == UNION {[1..n -> OxiTriples] : n \in 1..MaxOxi}

OxiWords == {None} \cup {Some(l) : l \in OxiLists}

GenArgv ==
    [cmd : {"generate_input_files"}, mpid : MpidWords, mapi_key : KeyWords,
     nmax : NmaxWords, oxi_range : OxiWords, dir : {None}]

ParseArgv ==
    [cmd : {"parse_vasp_output"}, mpid : MpidWords, mapi_key : KeyWords,
     nmax : {None}, oxi_range : {None}, dir : DirWords]

NoArgs ==
    [mpid |-> None, mapi_key |-> None, nmax |-> 0, oxi_range |-> None,
     root_fldr |-> None]

----------------------------------------------------------------------------
VARIABLES argv, args, pc, conn, exc, prim_struct, conv_struct, def_structs,
          i, oxi_range_dict, log, out, files

vars == <<argv, args, pc, conn, exc, prim_struct, conv_struct, def_structs,
          i, oxi_range_dict, log, out, files>>

Init ==
    /\ argv \in GenArgv \cup ParseArgv
    /\ args = NoArgs
    /\ pc = "main"
    /\ conn = "none"
    /\ exc = "none"
    /\ prim_struct = None
    /\ conv_struct = None
    /\ def_structs = None
    /\ i = 0
    /\ oxi_range_dict = None
    /\ log = <<>>
    /\ out = <<>>
    /\ files = {}

\* a call of a collaborator, as recorded
Call(step, a, ok) == [step |-> step, args |-> a, ok |-> ok, connOpen |-> conn = "open"]

\* the exception of a call propagates out of the handler
Raise(step) == pc' = "failed" /\ exc' = step

----------------------------------------------------------------------------
(* main: argparse, then dispatch on the subcommand *)

ParsedMpid == IF argv.mpid = None THEN None ELSE Some(StrLower(argv.mpid[1]))

ParsedNmax == IF argv.nmax = None THEN DefaultNmax ELSE IntVal(argv.nmax[1])

Main ==
    /\ pc = "main"
    /\ IF argv.nmax # None /\ ~IntOk(argv.nmax[1])
       THEN /\ pc' = "usage_error"
            /\ UNCHANGED args
       ELSE /\ args' = [mpid |-> ParsedMpid, mapi_key |-> argv.mapi_key,
                        nmax |-> ParsedNmax, oxi_range |-> argv.oxi_range,
                        root_fldr |-> argv.dir]
            /\ pc' = IF argv.cmd = "generate_input_files"
                     THEN "gen_check" ELSE "parse_check"
    /\ UNCHANGED <<argv, conn, exc, prim_struct, conv_struct, def_structs,
                   i, oxi_range_dict, log, out, files>>

----------------------------------------------------------------------------
(* generate_input_files *)

\* variant: the banner is printed but the handler does not return
GenCheckMpid_NoReturn ==
    /\ pc = "gen_check"
    /\ out' = IF ~Truthy(args.mpid, <<>>) THEN Append(out, Banner) ELSE out
    /\ pc' = "gen_open"
    /\ UNCHANGED <<argv, args, conn, exc, prim_struct, conv_struct,
                   def_structs, i, oxi_range_dict, log, files>>

GenCheckMpid ==
    /\ pc = "gen_check"
    /\ IF ~Truthy(args.mpid, <<>>)
       THEN /\ out' = Append(out, Banner)
            /\ pc' = "done"
       ELSE /\ pc' = "gen_open"
            /\ UNCHANGED out
    /\ UNCHANGED <<argv, args, conn, exc, prim_struct, conv_struct,
                   def_structs, i, oxi_range_dict, log, files>>

GenOpen ==
    /\ pc = "gen_open"
    /\ \E ok \in BOOLEAN :
        /\ log' = Append(log, Call("MPRester",
                     IF ~Truthy(args.mapi_key, "") THEN <<>>
                     ELSE <<args.mapi_key[1]>>, ok))
        /\ IF ok THEN conn' = "open" /\ pc' = "gen_fetch" /\ UNCHANGED exc
                 ELSE Raise("MPRester") /\ UNCHANGED conn
    /\ UNCHANGED <<argv, args, prim_struct, conv_struct, def_structs, i,
                   oxi_range_dict, out, files>>

GenFetch ==
    /\ pc = "gen_fetch"
    /\ \E ok \in BOOLEAN :
        /\ log' = Append(log, Call("get_structure_by_material_id",
                                   <<args.mpid[1]>>, ok))
        /\ IF ok THEN /\ prim_struct' = Some(<<"structure", args.mpid[1]>>)
                      /\ UNCHANGED exc
                 ELSE /\ exc' = "get_structure_by_material_id"
                      /\ UNCHANGED prim_struct
    /\ pc' = "gen_exit"
    /\ UNCHANGED <<argv, args, conn, conv_struct, def_structs, i,
                   oxi_range_dict, out, files>>

\* variant: the connection is closed only when the fetch returned
GenExit_LeakOnError ==
    /\ pc = "gen_exit"
    /\ conn' = IF exc = "none" THEN "closed" ELSE conn
    /\ pc' = IF exc = "none" THEN "gen_conv" ELSE "failed"
    /\ UNCHANGED <<argv, args, exc, prim_struct, conv_struct, def_structs,
                   i, oxi_range_dict, log, out, files>>

\* leaving the with block, normally or by the exception of the fetch
GenExit ==
    /\ pc = "gen_exit"
    /\ conn' = "closed"
    /\ pc' = IF exc = "none" THEN "gen_conv" ELSE "failed"
    /\ UNCHANGED <<argv, args, exc, prim_struct, conv_struct, def_structs,
                   i, oxi_range_dict, log, out, files>>

\* variant: the oxidation ranges are validated before any file is written
GenConv_ValidateFirst ==
    /\ pc = "gen_conv"
    /\ \E ok \in BOOLEAN :
        /\ log' = Append(log, Call("get_conventional_standard_structure",
                                   <<prim_struct[1]>>, ok))
        /\ IF ok THEN /\ conv_struct' = Some(<<"conventional", prim_struct[1]>>)
                      /\ IF /\ args.oxi_range # None
                            /\ \E k \in 1..Len(args.oxi_range[1]) :
                                 \/ ~IntOk(args.oxi_range[1][k][2])
                                 \/ ~IntOk(args.oxi_range[1][k][3])
                         THEN Raise("int")
                         ELSE pc' = "gen_dielectric" /\ UNCHANGED exc
                 ELSE /\ Raise("get_conventional_standard_structure")
                      /\ UNCHANGED conv_struct
    /\ UNCHANGED <<argv, args, conn, prim_struct, def_structs, i,
                   oxi_range_dict, out, files>>

\* variant: the dielectric files are not written
GenConv_SkipDielectric ==
    /\ pc = "gen_conv"
    /\ \E ok \in BOOLEAN :
        /\ log' = Append(log, Call("get_conventional_standard_structure",
                                   <<prim_struct[1]>>, ok))
        /\ IF ok THEN /\ conv_struct' = Some(<<"conventional", prim_struct[1]>>)
                      /\ pc' = "gen_oxi"
                      /\ UNCHANGED exc
                 ELSE /\ Raise("get_conventional_standard_structure")
                      /\ UNCHANGED conv_struct
    /\ UNCHANGED <<argv, args, conn, prim_struct, def_structs, i,
                   oxi_range_dict, out, files>>

GenConv ==
    /\ pc = "gen_conv"
    /\ \E ok \in BOOLEAN :
        /\ log' = Append(log, Call("get_conventional_standard_structure",
                                   <<prim_struct[1]>>, ok))
        /\ IF ok THEN /\ conv_struct' = Some(<<"conventional", prim_struct[1]>>)
                      /\ pc' = "gen_dielectric"
                      /\ UNCHANGED exc
                 ELSE /\ Raise("get_conventional_standard_structure")
                      /\ UNCHANGED conv_struct
    /\ UNCHANGED <<argv, args, conn, prim_struct, def_structs, i,
                   oxi_range_dict, out, files>>

\* variant: a failure of the dielectric writer is caught and ignored
GenDielectric_Swallow ==
    /\ pc = "gen_dielectric"
    /\ \E ok \in BOOLEAN :
        /\ log' = Append(log, Call("make_vasp_dielectric_files",
                                   <<prim_struct[1]>>, ok))
        /\ files' = IF ok THEN files \cup {"dielectric"} ELSE files
        /\ pc' = "gen_oxi"
        /\ UNCHANGED exc
    /\ UNCHANGED <<argv, args, conn, prim_struct, conv_struct, def_structs,
                   i, oxi_range_dict, out>>

GenDielectric ==
    /\ pc = "gen_dielectric"
    /\ \E ok \in BOOLEAN :
        /\ log' = Append(log, Call("make_vasp_dielectric_files",
                                   <<prim_struct[1]>>, ok))
        /\ IF ok THEN /\ files' = files \cup {"dielectric"}
                      /\ pc' = "gen_oxi"
                      /\ UNCHANGED exc
                 ELSE /\ Raise("make_vasp_dielectric_files")
                      /\ UNCHANGED files
    /\ UNCHANGED <<argv, args, conn, prim_struct, conv_struct, def_structs,
                   i, oxi_range_dict, out>>

\* if oxi_range: oxi_range_dict = {} and enter the loop
GenOxiBranch ==
    /\ pc = "gen_oxi"
    /\ IF args.oxi_range # None /\ Len(args.oxi_range[1]) > 0
       THEN /\ oxi_range_dict' = Some([e \in {} |-> <<0, 0>>])
            /\ i' = 0
            /\ pc' = "gen_loop"
       ELSE /\ pc' = "gen_enum_default"
            /\ UNCHANGED <<i, oxi_range_dict>>
    /\ UNCHANGED <<argv, args, conn, exc, prim_struct, conv_struct,
                   def_structs, log, out, files>>

DictPut(d, k, v) == [e \in (DOMAIN d) \cup {k} |-> IF e = k THEN v ELSE d[e]]

\* variant: the first range given for an element is kept
GenOxiLoop_KeepFirst ==
    /\ pc = "gen_loop"
    /\ IF i < Len(args.oxi_range[1])
       THEN LET t == args.oxi_range[1][i + 1] IN
            IF IntOk(t[2]) /\ IntOk(t[3])
            THEN /\ oxi_range_dict' =
                      IF t[1] \in DOMAIN oxi_range_dict[1] THEN oxi_range_dict
                      ELSE Some(DictPut(oxi_range_dict[1], t[1],
                                        <<IntVal(t[2]), IntVal(t[3])>>))
                 /\ i' = i + 1
                 /\ UNCHANGED <<pc, exc>>
            ELSE /\ Raise("int")
                 /\ UNCHANGED <<i, oxi_range_dict>>
       ELSE /\ pc' = "gen_enum_oxi"
            /\ UNCHANGED <<i, oxi_range_dict, exc>>
    /\ UNCHANGED <<argv, args, conn, prim_struct, conv_struct, def_structs,
                   log, out, files>>

\* one iteration of the for loop, or its end
GenOxiLoop ==
    /\ pc = "gen_loop"
    /\ IF i < Len(args.oxi_range[1])
       THEN LET t == args.oxi_range[1][i + 1] IN
            IF IntOk(t[2]) /\ IntOk(t[3])
            THEN /\ oxi_range_dict' =
                      Some(DictPut(oxi_range_dict[1], t[1],
                                   <<IntVal(t[2]), IntVal(t[3])>>))
                 /\ i' = i + 1
                 /\ UNCHANGED <<pc, exc>>
            ELSE /\ Raise("int")
                 /\ UNCHANGED <<i, oxi_range_dict>>
       ELSE /\ pc' = "gen_enum_oxi"
            /\ UNCHANGED <<i, oxi_range_dict, exc>>
    /\ UNCHANGED <<argv, args, conn, prim_struct, conv_struct, def_structs,
                   log, out, files>>

\* variant: cellmax is not passed, the enumerator uses the default cap
GenEnumOxi_DefaultCellmax ==
    /\ pc = "gen_enum_oxi"
    /\ \E ok \in BOOLEAN :
        LET a == [struct |-> conv_struct[1], oxi_range |-> oxi_range_dict,
                  cellmax |-> DefaultNmax] IN
        /\ log' = Append(log, Call("ChargedDefectsStructures", a, ok))
        /\ IF ok THEN /\ def_structs' = Some(<<"defect_structures", a>>)
                      /\ pc' = "gen_defect_files"
                      /\ UNCHANGED exc
                 ELSE /\ Raise("ChargedDefectsStructures")
                      /\ UNCHANGED def_structs
    /\ UNCHANGED <<argv, args, conn, prim_struct, conv_struct, i,
                   oxi_range_dict, out, files>>

GenEnumOxi ==
    /\ pc = "gen_enum_oxi"
    /\ \E ok \in BOOLEAN :
        LET a == [struct |-> conv_struct[1], oxi_range |-> oxi_range_dict,
                  cellmax |-> args.nmax] IN
        /\ log' = Append(log, Call("ChargedDefectsStructures", a, ok))
        /\ IF ok THEN /\ def_structs' = Some(<<"defect_structures", a>>)
                      /\ pc' = "gen_defect_files"
                      /\ UNCHANGED exc
                 ELSE /\ Raise("ChargedDefectsStructures")
                      /\ UNCHANGED def_structs
    /\ UNCHANGED <<argv, args, conn, prim_struct, conv_struct, i,
                   oxi_range_dict, out, files>>

\* variant: an empty mapping is passed when --oxi_range is omitted
GenEnumDefault_EmptyDict ==
    /\ pc = "gen_enum_default"
    /\ \E ok \in BOOLEAN :
        LET a == [struct |-> conv_struct[1],
                  oxi_range |-> Some([e \in {} |-> <<0, 0>>]),
                  cellmax |-> args.nmax] IN
        /\ log' = Append(log, Call("ChargedDefectsStructures", a, ok))
        /\ IF ok THEN /\ def_structs' = Some(<<"defect_structures", a>>)
                      /\ pc' = "gen_defect_files"
                      /\ UNCHANGED exc
                 ELSE /\ Raise("ChargedDefectsStructures")
                      /\ UNCHANGED def_structs
    /\ UNCHANGED <<argv, args, conn, prim_struct, conv_struct, i,
                   oxi_range_dict, out, files>>

GenEnumDefault ==
    /\ pc = "gen_enum_default"
    /\ \E ok \in BOOLEAN :
        LET a == [struct |-> conv_struct[1], oxi_range |-> None,
                  cellmax |-> args.nmax] IN
        /\ log' = Append(log, Call("ChargedDefectsStructures", a, ok))
        /\ IF ok THEN /\ def_structs' = Some(<<"defect_structures", a>>)
                      /\ pc' = "gen_defect_files"
                      /\ UNCHANGED exc
                 ELSE /\ Raise("ChargedDefectsStructures")
                      /\ UNCHANGED def_structs
    /\ UNCHANGED <<argv, args, conn, prim_struct, conv_struct, i,
                   oxi_range_dict, out, files>>

GenDefectFiles ==
    /\ pc = "gen_defect_files"
    /\ \E ok \in BOOLEAN :
        /\ log' = Append(log, Call("make_vasp_defect_files",
                     <<<<"defects", def_structs[1]>>,
                       <<"reduced_formula", conv_struct[1]>>>>, ok))
        /\ IF ok THEN /\ files' = files \cup {"defect"}
                      /\ pc' = "done"
                      /\ UNCHANGED exc
                 ELSE /\ Raise("make_vasp_defect_files")
                      /\ UNCHANGED files
    /\ UNCHANGED <<argv, args, conn, prim_struct, conv_struct, def_structs,
                   i, oxi_range_dict, out>>

----------------------------------------------------------------------------
(* parse_vasp_output *)

ParseCheckMpid ==
    /\ pc = "parse_check"
    /\ IF ~Truthy(args.mpid, <<>>)
       THEN /\ out' = Append(out, Banner)
            /\ pc' = "done"
       ELSE /\ pc' = "parse_open"
            /\ UNCHANGED out
    /\ UNCHANGED <<argv, args, conn, exc, prim_struct, conv_struct,
                   def_structs, i, oxi_range_dict, log, files>>

\* variant: the key is never passed to the connection
ParseOpen_NoKey ==
    /\ pc = "parse_open"
    /\ \E ok \in BOOLEAN :
        /\ log' = Append(log, Call("MPRester", <<>>, ok))
        /\ IF ok THEN conn' = "open" /\ pc' = "parse_fetch" /\ UNCHANGED exc
                 ELSE Raise("MPRester") /\ UNCHANGED conn
    /\ UNCHANGED <<argv, args, prim_struct, conv_struct, def_structs, i,
                   oxi_range_dict, out, files>>

ParseOpen ==
    /\ pc = "parse_open"
    /\ \E ok \in BOOLEAN :
        /\ log' = Append(log, Call("MPRester",
                     IF ~Truthy(args.mapi_key, "") THEN <<>>
                     ELSE <<args.mapi_key[1]>>, ok))
        /\ IF ok THEN conn' = "open" /\ pc' = "parse_fetch" /\ UNCHANGED exc
                 ELSE Raise("MPRester") /\ UNCHANGED conn
    /\ UNCHANGED <<argv, args, prim_struct, conv_struct, def_structs, i,
                   oxi_range_dict, out, files>>

ParseFetch ==
    /\ pc = "parse_fetch"
    /\ \E ok \in BOOLEAN :
        /\ log' = Append(log, Call("get_structure_by_material_id",
                                   <<args.mpid[1]>>, ok))
        /\ IF ok THEN /\ prim_struct' = Some(<<"structure", args.mpid[1]>>)
                      /\ UNCHANGED exc
                 ELSE /\ exc' = "get_structure_by_material_id"
                      /\ UNCHANGED prim_struct
    /\ pc' = "parse_exit"
    /\ UNCHANGED <<argv, args, conn, conv_struct, def_structs, i,
                   oxi_range_dict, out, files>>

ParseExit ==
    /\ pc = "parse_exit"
    /\ conn' = "closed"
    /\ pc' = IF exc = "none" THEN "parse_post" ELSE "failed"
    /\ UNCHANGED <<argv, args, exc, prim_struct, conv_struct, def_structs,
                   i, oxi_range_dict, log, out, files>>

\* variant: an empty key is replaced by None, as for the connection
PostProcessInit_DropEmptyKey ==
    /\ pc = "parse_post"
    /\ \E ok \in BOOLEAN :
        /\ log' = Append(log, Call("PostProcess",
                     [root_fldr |-> args.root_fldr, mpid |-> args.mpid[1],
                      mapi_key |-> IF Truthy(args.mapi_key, "")
                                   THEN args.mapi_key ELSE None], ok))
        /\ IF ok THEN pc' = "parse_calc" /\ UNCHANGED exc
                 ELSE Raise("PostProcess")
    /\ UNCHANGED <<argv, args, conn, prim_struct, conv_struct, def_structs,
                   i, oxi_range_dict, out, files>>

\* PostProcess(root_fldr, mpid, mapi_key)
PostProcessInit ==
    /\ pc = "parse_post"
    /\ \E ok \in BOOLEAN :
        /\ log' = Append(log, Call("PostProcess",
                     [root_fldr |-> args.root_fldr, mpid |-> args.mpid[1],
                      mapi_key |-> args.mapi_key], ok))
        /\ IF ok THEN pc' = "parse_calc" /\ UNCHANGED exc
                 ELSE Raise("PostProcess")
    /\ UNCHANGED <<argv, args, conn, prim_struct, conv_struct, def_structs,
                   i, oxi_range_dict, out, files>>

\* .parse_defect_calculations()
ParseDefectCalculations ==
    /\ pc = "parse_calc"
    /\ \E ok \in BOOLEAN :
        /\ log' = Append(log, Call("parse_defect_calculations", <<>>, ok))
        /\ IF ok THEN pc' = "done" /\ UNCHANGED exc
                 ELSE Raise("parse_defect_calculations")
    /\ UNCHANGED <<argv, args, conn, prim_struct, conv_struct, def_structs,
                   i, oxi_range_dict, out, files>>

----------------------------------------------------------------------------
Next ==
    \/ Main
    \/ GenCheckMpid
    \/ GenOpen
    \/ GenFetch
    \/ GenExit
    \/ GenConv
    \/ GenDielectric
    \/ GenOxiBranch
    \/ GenOxiLoop
    \/ GenEnumOxi
    \/ GenEnumDefault
    \/ GenDefectFiles
    \/ ParseCheckMpid
    \/ ParseOpen
    \/ ParseFetch
    \/ ParseExit
    \/ PostProcessInit
    \/ ParseDefectCalculations

Spec == Init /\ [][Next]_vars

----------------------------------------------------------------------------
(* Vocabulary of the properties *)

IsGen == argv.cmd = "generate_input_files"

IsParse == argv.cmd = "parse_vasp_output"

Started == pc \notin {"main", "usage_error"}

HasMpid == Started /\ args.mpid # None /\ args.mpid # Some(<<>>)

StepNames == [k \in 1..Len(log) |-> log[k].step]

CallsOf(step) == {k \in 1..Len(log) : log[k].step = step}

IsPrefix(s, t) == Len(s) <= Len(t) /\ \A k \in 1..Len(s) : s[k] = t[k]

HasMalformedOxi ==
    /\ argv.oxi_range # None
    /\ \E k \in 1..Len(argv.oxi_range[1]) :
         ~IntOk(argv.oxi_range[1][k][2]) \/ ~IntOk(argv.oxi_range[1][k][3])

GenOrder ==
    <<"MPRester", "get_structure_by_material_id",
      "get_conventional_standard_structure", "make_vasp_dielectric_files",
      "ChargedDefectsStructures", "make_vasp_defect_files">>

ParseOrder ==
    <<"MPRester", "get_structure_by_material_id", "PostProcess",
      "parse_defect_calculations">>

\* k is the last --oxi_range occurrence naming its element
LastFor(k) ==
    \A m \in (k + 1)..Len(argv.oxi_range[1]) :
        argv.oxi_range[1][m][1] # argv.oxi_range[1][k][1]

----------------------------------------------------------------------------
\* C1: with --mpid missing, either handler prints exactly the banner and
\* returns normally; no connection is opened, no collaborator is called and
\* nothing is written.
C1_MissingMpidBanner ==
    (Started /\ argv.mpid = None) =>
        /\ pc \in {"gen_check", "parse_check", "done"}
        /\ log = <<>>
        /\ conn = "none"
        /\ exc = "none"
        /\ files = {}
        /\ prim_struct = None
        /\ (pc = "done" =>
              out = <<"============\nERROR: Provide an mpid\n============">>)
        /\ (pc # "done" => out = <<>>)

C1_Witness ==
    /\ IsGen /\ argv.mpid = None /\ argv.oxi_range # None
    /\ pc = "done" /\ Len(out) = 1 /\ log = <<>>

\* C2 as amended: the mapping handed to the enumerator has exactly the
\* elements given on the command line as keys, each mapped to the integer
\* pair of the last triple given for that element, and it is the handler's
\* oxi_range_dict itself.
C2_LastTripleMapped ==
    \A c \in CallsOf("ChargedDefectsStructures") :
        argv.oxi_range # None =>
            /\ log[c].args.oxi_range # None
            /\ log[c].args.oxi_range = oxi_range_dict
            /\ LET d == log[c].args.oxi_range[1]
                   l == argv.oxi_range[1] IN
               /\ DOMAIN d = {l[k][1] : k \in 1..Len(l)}
               /\ \A k \in 1..Len(l) :
                     LastFor(k) => d[l[k][1]] = <<IntVal(l[k][2]), IntVal(l[k][3])>>
               /\ (l[Len(l)] = <<"As", <<"-","3">>, <<"5">>>> => d["As"] = <<0 - 3, 5>>)

C2_Witness ==
    /\ argv.oxi_range = Some(<< <<"As", <<"5">>, <<"5">>>>,
                                <<"As", <<"-","3">>, <<"5">>>> >>)
    /\ \E c \in CallsOf("ChargedDefectsStructures") :
          log[c].ok /\ log[c].args.oxi_range[1]["As"] = <<0 - 3, 5>>

\* C2 as stated: every triple given appears in the mapping with its own pair.
C2_EveryTripleMapped ==
    \A c \in CallsOf("ChargedDefectsStructures") :
        argv.oxi_range # None =>
            /\ log[c].args.oxi_range # None
            /\ LET d == log[c].args.oxi_range[1]
                   l == argv.oxi_range[1] IN
               /\ DOMAIN d = {l[k][1] : k \in 1..Len(l)}
               /\ \A k \in 1..Len(l) :
                     d[l[k][1]] = <<IntVal(l[k][2]), IntVal(l[k][3])>>

\* C3: with --oxi_range omitted the enumerator gets the conventional
\* structure and the cap but no mapping, and a run that completes has
\* called it exactly once (never more than once).
C3_NoMappingWhenOmitted ==
    (IsGen /\ argv.oxi_range = None) =>
        /\ \A c \in CallsOf("ChargedDefectsStructures") :
              /\ log[c].args.oxi_range = None
              /\ log[c].args.struct = conv_struct[1]
              /\ log[c].args.cellmax = args.nmax
        /\ Cardinality(CallsOf("ChargedDefectsStructures")) <= 1
        /\ (pc \in {"gen_defect_files", "done"} /\ HasMpid =>
              Cardinality(CallsOf("ChargedDefectsStructures")) = 1)

C3_Witness ==
    /\ IsGen /\ argv.oxi_range = None /\ pc = "done"
    /\ Cardinality(CallsOf("ChargedDefectsStructures")) = 1

\* C4: the cap passed to the enumerator is the integer given with --nmax,
\* and 128 when --nmax is omitted, with and without --oxi_range; the parsed
\* value does not change during the run.
C4_NmaxForwarded ==
    /\ Started =>
          /\ (argv.nmax = None => args.nmax = 128)
          /\ (argv.nmax = Some(<<"6","4">>) => args.nmax = 64)
    /\ \A c \in CallsOf("ChargedDefectsStructures") :
          /\ log[c].args.cellmax = args.nmax
          /\ (argv.nmax = None => log[c].args.cellmax = 128)
          /\ (argv.nmax # None => log[c].args.cellmax = IntVal(argv.nmax[1]))

C4_Witness ==
    /\ argv.nmax = Some(<<"6","4">>) /\ argv.oxi_range # None
    /\ \E c \in CallsOf("ChargedDefectsStructures") : log[c].args.cellmax = 64

\* C5 as amended: a non-empty --mapi_key is the one argument of the
\* connection; an omitted or empty one opens the connection with no
\* argument; a run opens at most one connection and fetches at most once,
\* with the parsed identifier, and exactly once each when it completes.
C5_KeyRouting ==
    /\ \A c \in CallsOf("MPRester") :
          /\ (argv.mapi_key = None => log[c].args = <<>>)
          /\ (argv.mapi_key = Some("") => log[c].args = <<>>)
          /\ (argv.mapi_key = Some("k1") => log[c].args = <<"k1">>)
    /\ \A c \in CallsOf("get_structure_by_material_id") :
          /\ log[c].args = <<StrLower(argv.mpid[1])>>
          /\ log[c].connOpen
          /\ c > 1 /\ log[c - 1].step = "MPRester" /\ log[c - 1].ok
    /\ Cardinality(CallsOf("MPRester")) <= 1
    /\ Cardinality(CallsOf("get_structure_by_material_id")) <= 1
    /\ (pc = "done" /\ HasMpid =>
          /\ Cardinality(CallsOf("MPRester")) = 1
          /\ Cardinality(CallsOf("get_structure_by_material_id")) = 1)

C5_Witness ==
    /\ IsParse /\ argv.mapi_key = Some("k1") /\ pc = "done"
    /\ Len(log) = 4
    /\ log[1].step = "MPRester" /\ log[1].args = <<"k1">>
    /\ log[2].step = "get_structure_by_material_id"
    /\ log[2].args = << <<"m","p","-","1">> >>

\* C5 as stated: whenever --mapi_key is supplied, the connection is opened
\* with exactly that key.
C5_SuppliedKeyUsed ==
    \A c \in CallsOf("MPRester") :
        /\ (argv.mapi_key = None => log[c].args = <<>>)
        /\ (argv.mapi_key # None => log[c].args = <<argv.mapi_key[1]>>)

\* C6: a failing step ends the handler in the failed state: the failure is
\* never swallowed, no call follows a failed call, no step is called twice,
\* and nothing runs once the handler has failed.
C6_FailurePropagates ==
    /\ \A k \in 1..(Len(log) - 1) : log[k].ok
    /\ \A k, m \in 1..Len(log) : log[k].step = log[m].step => k = m
    /\ (log # <<>> /\ ~log[Len(log)].ok) =>
          /\ exc = log[Len(log)].step
          /\ pc \in {"failed", "gen_exit", "parse_exit"}
    /\ (exc \notin {"none", "int"}) =>
          log # <<>> /\ ~log[Len(log)].ok /\ log[Len(log)].step = exc
    /\ (exc # "none") => pc \in {"failed", "gen_exit", "parse_exit"}
    /\ (pc \in {"gen_exit", "parse_exit"} /\ exc # "none") =>
          exc = "get_structure_by_material_id"
    /\ (pc = "failed") => (exc # "none" /\ ~ENABLED Next)
    /\ (pc = "done") => exc = "none"

C6_Witness ==
    /\ pc = "failed" /\ exc = "make_vasp_dielectric_files"
    /\ Len(log) = 4 /\ ~log[4].ok

\* C7: generate_input_files calls its steps in the order connection, fetch,
\* conventional cell, dielectric files, enumerator, defect files; a complete
\* run has made each call exactly once, on the values produced before it,
\* whatever the number of --oxi_range triples.
C7_GenOrder ==
    IsGen =>
        /\ IsPrefix(StepNames, GenOrder)
        /\ (pc = "done" /\ HasMpid) =>
              /\ StepNames = GenOrder
              /\ \A k \in 1..Len(log) : log[k].ok
              /\ log[2].args = <<args.mpid[1]>>
              /\ prim_struct = Some(<<"structure", args.mpid[1]>>)
              /\ log[3].args = <<prim_struct[1]>>
              /\ conv_struct = Some(<<"conventional", prim_struct[1]>>)
              /\ log[5].args.struct = conv_struct[1]
              /\ def_structs = Some(<<"defect_structures", log[5].args>>)
              /\ log[6].args[1] = <<"defects", def_structs[1]>>
              /\ files = {"dielectric", "defect"}

C7_Witness ==
    /\ IsGen /\ pc = "done" /\ HasMpid
    /\ argv.oxi_range # None /\ Len(argv.oxi_range[1]) = 2
    /\ Len(log) = 6

\* C8: the connection is open only between its opening and the exit of the
\* with block around the fetch; the fetch is the only call made while it is
\* open; it is closed after the fetch, failed or not, and never open when
\* the handler has ended.
C8_ConnectionScoped ==
    /\ (conn = "open") => pc \in {"gen_fetch", "gen_exit", "parse_fetch", "parse_exit"}
    /\ \A k \in 1..Len(log) :
          log[k].connOpen <=> log[k].step = "get_structure_by_material_id"
    /\ (pc \in {"done", "failed"}) => conn # "open"
    /\ (CallsOf("get_structure_by_material_id") # {}
          /\ pc \notin {"gen_exit", "parse_exit"}) => conn = "closed"

C8_Witness ==
    /\ IsGen /\ pc = "failed" /\ exc = "get_structure_by_material_id"
    /\ conn = "closed"

\* C9: parse_vasp_output triggers post-processing at most once, only after
\* a successful fetch, with --dir, the parsed identifier and --mapi_key as
\* parsed; a complete run triggers it exactly once and a failed fetch never.
C9_PostProcessAfterFetch ==
    IsParse =>
        /\ IsPrefix(StepNames, ParseOrder)
        /\ \A c \in CallsOf("PostProcess") :
              /\ log[c].args = [root_fldr |-> argv.dir,
                                mpid |-> StrLower(argv.mpid[1]),
                                mapi_key |-> argv.mapi_key]
              /\ \E f \in 1..(c - 1) :
                    log[f].step = "get_structure_by_material_id" /\ log[f].ok
        /\ \A c \in CallsOf("parse_defect_calculations") :
              /\ CallsOf("PostProcess") # {}
              /\ \E f \in 1..(c - 1) :
                    log[f].step = "get_structure_by_material_id" /\ log[f].ok
        /\ (exc = "get_structure_by_material_id") =>
              CallsOf("PostProcess") \cup CallsOf("parse_defect_calculations") = {}
        /\ (pc = "done" /\ HasMpid) =>
              Cardinality(CallsOf("parse_defect_calculations")) = 1

C9_Witness ==
    /\ IsParse /\ pc = "done" /\ argv.dir = None /\ argv.mapi_key = Some("")
    /\ Len(log) = 4
    /\ log[3].args = [root_fldr |-> None, mpid |-> <<"m","p","-","1">>,
                      mapi_key |-> Some("")]

\* C10: the integer conversion of the triples runs after the dielectric
\* files are written: a run with a non-integer bound never reaches the
\* enumerator or the defect writer and never completes, its conversion
\* failure finds the dielectric files written, and they stay written.
C10_IntAfterDielectric ==
    /\ (exc = "int") =>
          /\ pc = "failed"
          /\ HasMalformedOxi
          /\ "dielectric" \in files
          /\ Len(log) = 4 /\ log[4].step = "make_vasp_dielectric_files" /\ log[4].ok
    /\ (HasMalformedOxi) =>
          /\ CallsOf("ChargedDefectsStructures") = {}
          /\ CallsOf("make_vasp_defect_files") = {}
          /\ "defect" \notin files
          /\ (HasMpid => pc # "done")
          /\ (pc = "failed" /\ "dielectric" \in files => exc = "int")
    /\ \A k \in CallsOf("make_vasp_dielectric_files") :
          log[k].ok => "dielectric" \in files

C10_Witness ==
    /\ exc = "int" /\ pc = "failed" /\ i = 1
    /\ files = {"dielectric"}

====
